---- MODULE Spec2Model ----
(***************************************************************************)
(* Formbricks data seeder: the seeding pipeline of src/src/seeder.py       *)
(* (FormbricksSeeder.seed_all and the three seeding loops it drives).      *)
(*                                                                         *)
(* One seed_all run is modelled as a sequential program whose steps are    *)
(* the points where the environment decides something: the configuration   *)
(* the seeder was constructed with, the reachability probe, the three      *)
(* interchange files, and the answer of the remote API to every request.   *)
(*                                                                         *)
(* The data generator of src/src/generator.py has specifications of its   *)
(* own further down: SpecExtract (_extract_json), SpecAnswer              *)
(* (_generate_answer_for_question), SpecResponses (generate_responses)    *)
(* and SpecGenerate (generate_all with check_ollama_available).  Each      *)
(* specification leaves the state of the others at rest.                   *)
(***************************************************************************)
EXTENDS Integers, Sequences, FiniteSets, TLC

\* Bound of the model: total number of items (users + surveys + responses)
\* held by the three interchange files of one run.
MaxItems == 3

(***************************************************************************)
(* Python values                                                           *)
(***************************************************************************)

\* Python's None where an Optional[str] is expected.
None == "None"

\* `not x` for an Optional[str]: None and the empty string are falsy.
Falsy(x) == x \in {None, ""}

\* dict helpers: {} , d[k] = v , d.get(k, default)
EmptyDict == [k \in {} |-> None]

DictSet(d, k, v) == [x \in (DOMAIN d) \cup {k} |-> IF x = k THEN v ELSE d[x]]

DictGet(d, k, default) == IF k \in DOMAIN d THEN d[k] ELSE default

\* No exception in flight.
NoException == [type |-> "", origin |-> "", names |-> {}]

Exception(type, origin, names) == [type |-> type, origin |-> origin, names |-> names]

(***************************************************************************)
(* Interchange data (src/src/schemas.py).  The schemas check shape only:   *)
(* neither emails nor survey ids are required to be unique in a file.      *)
(***************************************************************************)

UserPool ==
    { [name |-> "Ada", email |-> "ada@example.com", role |-> "owner"],
      [name |-> "Bob", email |-> "bob@example.com", role |-> "member"] }

\* Absent Optional[Dict] card.
NoCard == [absent |-> TRUE]

RatingQuestion ==
    [id |-> "q1", type |-> "rating", headline |-> "How was it?", required |-> TRUE,
     subheader |-> "", scale |-> "number", range |-> 5,
     lowerLabel |-> "Bad", upperLabel |-> "Good"]

ChoiceQuestion ==
    [id |-> "q2", type |-> "multipleChoiceSingle", headline |-> "Pick one",
     required |-> FALSE, subheader |-> "Choose", range |-> 0,
     choices |-> << [id |-> "choice-1", label |-> "Yes"],
                    [id |-> "choice-2", label |-> "No"] >>]

SurveyPool ==
    { [id |-> "local-1", name |-> "Satisfaction", questions |-> <<RatingQuestion>>,
       status |-> "draft", type |-> "link",
       welcomeCard |-> NoCard, thankYouCard |-> NoCard],
      [id |-> "local-2", name |-> "Feedback",
       questions |-> <<RatingQuestion, ChoiceQuestion>>,
       status |-> "inProgress", type |-> "web",
       welcomeCard |-> [enabled |-> TRUE], thankYouCard |-> NoCard] }

\* Answer.value is Union[str, int, List[str]]: one variant per alternative.
IntValue(n) == [int |-> n]
StrValue(s) == [str |-> s]
ListValue(l) == [list |-> l]

ResponsePool ==
    { [survey_id |-> "local-1", user_email |-> "ada@example.com", finished |-> TRUE,
       answers |-> << [question_id |-> "q1", value |-> IntValue(4)] >>],
      [survey_id |-> "local-2", user_email |-> "bob@example.com", finished |-> TRUE,
       answers |-> << [question_id |-> "q1", value |-> IntValue(2)],
                      [question_id |-> "q2", value |-> StrValue("choice-2")] >>],
      [survey_id |-> "local-2", user_email |-> "ada@example.com", finished |-> FALSE,
       answers |-> << [question_id |-> "q1", value |-> IntValue(1)],
                      [question_id |-> "q1", value |-> ListValue(<<"choice-1">>)] >>] }

\* All sequences over S of length at most n.
SeqUpTo(S, n) == UNION { [1..k -> S] : k \in 0..n }

(***************************************************************************)
(* The remote side: what one HTTP exchange can come to.                    *)
(***************************************************************************)

\* Ids the server may assign (it may also hand back an id equal to a local one).
RemoteIds == {"remote-9", "local-2"}

Statuses == {200, 404, 500}

\* Body of a reply: a JSON object with or without "id", JSON that is not an
\* object (an array, say), or text that is not JSON.
Bodies ==
    { [kind |-> "object", id |-> r] : r \in RemoteIds }
    \cup { [kind |-> "object_noid", id |-> None],
           [kind |-> "array", id |-> None],
           [kind |-> "text", id |-> None] }

NoBody == [kind |-> "none", id |-> None]

\* requests.request either returns a reply or raises a transport error
\* (both are RequestException, neither is HTTPError).
Outcomes ==
    { [error |-> "", status |-> s, body |-> b] : s \in Statuses, b \in Bodies }
    \cup { [error |-> e, status |-> 0, body |-> NoBody] :
             e \in {"ConnectionError", "Timeout"} }

(***************************************************************************)
(* Pure helpers of FormbricksSeeder                                        *)
(***************************************************************************)

\* _check_connection: GET base_url; reachable iff a reply came with status < 500.
_check_connection(o) == IF o.error # "" THEN FALSE ELSE o.status < 500

\* requests.request followed by response.raise_for_status(), as in
\* _management_request and _client_request: the exception raised, "" if none.
RequestException(o) ==
    IF o.error # "" THEN o.error
    ELSE IF o.status >= 400 /\ o.status < 600 THEN "HTTPError"
    ELSE ""

_management_request(o) == RequestException(o)

_client_request(o) == RequestException(o)

\* response.json(): fails on a body that is not JSON.
JsonException(body) == IF body.kind = "text" THEN "JSONDecodeError" ELSE ""

\* <parsed body>.get("id", ...): only a JSON object has .get.
GetException(body) == IF body.kind = "array" THEN "AttributeError" ELSE ""

\* <parsed object>.get("id", default)
GetId(body, default) == IF body.kind = "object" THEN body.id ELSE default

\* `if question.<field>:` -- the optional field is present and truthy.
OptionalFields == {"subheader", "choices", "scale", "range", "lowerLabel", "upperLabel"}

Truthy(question, f) ==
    /\ f \in DOMAIN question
    /\ question[f] # (CASE f = "choices" -> <<>> [] f = "range" -> 0 [] OTHER -> "")

_prepare_question_payload(question) ==
    [f \in {"id", "type", "headline", "required"}
           \cup {g \in OptionalFields : Truthy(question, g)} |->
        IF f = "choices"
        THEN [i \in DOMAIN question.choices |->
                [id |-> question.choices[i].id, label |-> question.choices[i].label]]
        ELSE question[f]]

_prepare_survey_payload(survey) ==
    [name |-> survey.name,
     type |-> survey.type,
     status |-> survey.status,
     questions |-> [i \in DOMAIN survey.questions |->
                       _prepare_question_payload(survey.questions[i])],
     welcomeCard |-> IF survey.welcomeCard = NoCard
                     THEN [enabled |-> FALSE] ELSE survey.welcomeCard,
     thankYouCard |-> IF survey.thankYouCard = NoCard
                      THEN [enabled |-> TRUE, headline |-> "Thank you!",
                            subheader |-> "We appreciate your feedback."]
                      ELSE survey.thankYouCard]

RECURSIVE CollapseAnswers_FirstWins(_, _)
\* Variant of CollapseAnswers: the first answer to a question is kept.
CollapseAnswers_FirstWins(answers, data) ==
    IF answers = <<>> THEN data
    ELSE CollapseAnswers_FirstWins(
             Tail(answers),
             IF Head(answers).question_id \in DOMAIN data THEN data
             ELSE DictSet(data, Head(answers).question_id, Head(answers).value))

\* data = {}; for answer in answers: data[answer.question_id] = answer.value
RECURSIVE CollapseAnswers(_, _)
CollapseAnswers(answers, data) ==
    IF answers = <<>> THEN data
    ELSE CollapseAnswers(Tail(answers),
                         DictSet(data, Head(answers).question_id, Head(answers).value))

_prepare_response_payload(response, survey_id) ==
    [surveyId |-> survey_id,
     finished |-> response.finished,
     data |-> CollapseAnswers(response.answers, EmptyDict)]

\* Variant of ResolveSurveyId: the mapping table is never consulted.
ResolveSurveyId_LocalOnly(mapping, response) == response.survey_id

\* created_surveys.get(response.survey_id, response.survey_id)
ResolveSurveyId(mapping, response) ==
    DictGet(mapping, response.survey_id, response.survey_id)

\* The request as it goes on the wire.
ManagementRequest(key, env, resource, data) ==
    [api |-> "management", method |-> "POST",
     endpoint |-> <<"environments", env, resource>>,
     api_key |-> key, data |-> data]

ClientRequest(env, survey_id, data) ==
    [api |-> "client", method |-> "POST",
     endpoint |-> <<env, "displays", survey_id, "responses">>,
     api_key |-> None, data |-> data]

ProbeRequest ==
    [api |-> "probe", method |-> "GET", endpoint |-> <<>>,
     api_key |-> None, data |-> EmptyDict]

(***************************************************************************)
(* State                                                                   *)
(***************************************************************************)
VARIABLES
    api_key,          \* self.api_key
    environment_id,   \* self.environment_id
    pc,               \* position of the seed_all call
    idx,              \* items already processed by the running seeding loop
    connected,        \* what _check_connection returned (FALSE before the probe)
    files,            \* what _load_json_file found for each interchange file
    users,            \* UserList loaded from users.json
    surveys,          \* SurveyList loaded from surveys.json
    responses,        \* ResponseList loaded from responses.json
    created_users,    \* self.created_users: email -> id
    created_surveys,  \* self.created_surveys: local id -> api id
    requests,         \* every request issued so far, in order
    replies,          \* what each request of `requests` came to
    console,          \* what the seeding phases printed, in order
    raised            \* the exception seed_all ended with, NoException if none

\* The data generator (src/src/generator.py) is a separate command with its
\* own state; a run of the seeder leaves it alone.
VARIABLES
    text,             \* the argument of a call of _extract_json
    extracted,        \* what the calls of _extract_json returned, in order
    question,         \* the argument of a call of _generate_answer_for_question
    answer,           \* what the calls of _generate_answer_for_question came to
    gen_pc,           \* position of the generator call under way (where it
                      \* stopped, once gen_raised is set)
    gen_surveys,      \* surveys.surveys, the surveys responses are generated for
    gen_users,        \* users.users, the user pool
    min_per_survey,   \* generate_responses' min_per_survey
    max_per_survey,   \* generate_responses' max_per_survey
    responding_users, \* for each survey gone through, the positions in the user
                      \* pool of its responding_users, in the order sampled
    all_responses,    \* generate_responses' all_responses
    gen_raised,       \* the type of the exception the call ended with, "" if none
    native_listing,   \* what self.client.list() comes to
    http_listing,     \* what the backend answers on each HTTP listing endpoint
    available,        \* what check_ollama_available returned (FALSE before it)
    chats,            \* the chat requests sent to the backend and what came back
    data_dir,         \* whether config.DATA_DIR exists
    disk,             \* what the data directory holds for each interchange file
    exit_status,      \* the status the command's process exited with: none
                      \* while the command runs, then one
    num_users         \* config.NUM_USERS as the generate command runs with
                      \* it, 0 when no generate command runs

seeder_side == <<api_key, environment_id, pc, idx, connected, files, users,
                 surveys, responses, created_users, created_surveys, requests,
                 replies, console, raised>>

extract_side == <<text, extracted>>

answer_side == <<question, answer>>

responses_side == <<gen_pc, gen_surveys, gen_users, min_per_survey, max_per_survey,
                    responding_users, all_responses, gen_raised>>

run_side == <<native_listing, http_listing, available, chats, data_dir, disk>>

generator_side == <<extract_side, answer_side, responses_side, run_side>>

command_side == <<exit_status, num_users>>

vars == <<seeder_side, generator_side, command_side>>

\* No generate command was started and the process has not exited.
CommandIdle ==
    /\ exit_status = <<>>
    /\ num_users = 0

\* No call of _extract_json is under way.
ExtractIdle ==
    /\ text = <<>>
    /\ extracted = <<>>

\* Absent Optional[...] field of a model, where a value has to stand.
Absent == [absent |-> TRUE]

\* No call of _generate_answer_for_question is under way.
AnswerIdle ==
    /\ question = Absent
    /\ answer = <<>>

\* No call of generate_responses is under way.
ResponsesIdle ==
    /\ gen_pc = "idle"
    /\ gen_surveys = <<>>
    /\ gen_users = <<>>
    /\ min_per_survey = 0
    /\ max_per_survey = 0
    /\ responding_users = <<>>
    /\ all_responses = <<>>
    /\ gen_raised = ""

\* check_ollama_available line 119: the listing endpoints probed over HTTP.
Candidates == {"/api/models", "/api/tags", "/api/list"}

\* No call of generate_all is under way.
RunIdle ==
    /\ native_listing = "raises"
    /\ http_listing = [path \in Candidates |-> "refused"]
    /\ available = FALSE
    /\ chats = <<>>
    /\ data_dir = FALSE
    /\ disk = [f \in {"users.json", "surveys.json", "responses.json"} |-> "absent"]

\* The generator before any of its methods is called.
GeneratorIdle ==
    /\ ExtractIdle
    /\ AnswerIdle
    /\ ResponsesIdle
    /\ RunIdle

\* No seeder has been constructed.
SeederIdle ==
    /\ api_key = None
    /\ environment_id = None
    /\ pc = "idle"
    /\ idx = 0
    /\ connected = FALSE
    /\ files = [f \in {"users.json", "surveys.json", "responses.json"} |-> "unread"]
    /\ users = <<>>
    /\ surveys = <<>>
    /\ responses = <<>>
    /\ created_users = EmptyDict
    /\ created_surveys = EmptyDict
    /\ requests = <<>>
    /\ replies = <<>>
    /\ console = <<>>
    /\ raised = NoException

FileNames == {"users.json", "surveys.json", "responses.json"}

\* FormbricksSeeder.__init__: key and environment id come from the arguments or,
\* failing that, from the environment (either of which may be unset or empty).
Init ==
    /\ api_key \in {None, "", "fbk-key"}
    /\ environment_id \in {None, "", "env-1"}
    /\ pc = "validate"
    /\ idx = 0
    /\ connected = FALSE
    /\ files = [f \in FileNames |-> "unread"]
    /\ users = <<>>
    /\ surveys = <<>>
    /\ responses = <<>>
    /\ created_users = EmptyDict
    /\ created_surveys = EmptyDict
    /\ requests = <<>>
    /\ replies = <<>>
    /\ console = <<>>
    /\ raised = NoException
    /\ GeneratorIdle
    /\ CommandIdle

\* An exception leaves seed_all.
Raise(e) ==
    /\ pc' = "raised"
    /\ raised' = e

\* What a request came to, as far as the seeder looks at it: the exception
\* raised by the request or by the decoding of its body, and the id the body
\* carried.
Reply(exception, o) ==
    [exception |-> exception,
     id |-> IF exception = "" THEN GetId(o.body, None) ELSE None]

(***************************************************************************)
(* seed_all, up to the seeding phases                                      *)
(***************************************************************************)

\* Variant of ConfigError: the environment id is not checked.
ConfigError_KeyOnly(key, env) ==
    IF Falsy(key) THEN {"FORMBRICKS_API_KEY"} ELSE {}

\* seed_all lines 424-433: the two configuration checks, in order; the names
\* of the exception are the settings its message names.
ConfigError(key, env) ==
    IF Falsy(key) THEN {"FORMBRICKS_API_KEY"}
    ELSE IF Falsy(env) THEN {"FORMBRICKS_ENVIRONMENT_ID"}
    ELSE {}

ValidateConfig ==
    /\ pc = "validate"
    /\ IF ConfigError(api_key, environment_id) # {}
       THEN Raise(Exception("ValueError", "seed_all",
                            ConfigError(api_key, environment_id)))
       ELSE pc' = "check_connection" /\ raised' = raised
    /\ UNCHANGED <<generator_side, command_side>>
    /\ UNCHANGED <<api_key, environment_id, idx, connected, files, users, surveys,
                   responses, created_users, created_surveys, requests, replies,
                   console>>

\* seed_all lines 435-442: the reachability probe.
CheckConnection ==
    /\ pc = "check_connection"
    /\ \E o \in Outcomes :
          /\ requests' = Append(requests, ProbeRequest)
          /\ replies' = Append(replies, [exception |-> o.error, id |-> None])
          /\ connected' = _check_connection(o)
          /\ IF _check_connection(o)
             THEN pc' = "load_users" /\ raised' = raised
             ELSE Raise(Exception("ConnectionError", "seed_all", {}))
    /\ UNCHANGED <<generator_side, command_side>>
    /\ UNCHANGED <<api_key, environment_id, idx, files, users, surveys, responses,
                   created_users, created_surveys, console>>

\* _load_json_file: what the file system holds for one interchange file.
FileStates == {"missing", "not_json", "invalid", "ok"}

\* Variant of _load_json_file: no filepath.exists() check, a missing file
\* loads as an empty list.
_load_json_file_NoExistsCheck(f) ==
    CASE f = "not_json" -> "JSONDecodeError"
      [] f = "invalid" -> "ValidationError"
      [] OTHER -> ""

\* The exception _load_json_file raises for a file in state f, "" if none.
_load_json_file(f) ==
    CASE f = "missing" -> "FileNotFoundError"
      [] f = "not_json" -> "JSONDecodeError"
      [] f = "invalid" -> "ValidationError"
      [] OTHER -> ""

\* Room left under MaxItems.
Room == MaxItems - (Len(users) + Len(surveys) + Len(responses))

\* seed_all line 446
LoadUsers ==
    /\ pc = "load_users"
    /\ \E f \in FileStates :
          /\ files' = [files EXCEPT !["users.json"] = f]
          /\ IF _load_json_file(f) # ""
             THEN /\ Raise(Exception(_load_json_file(f), "_load_json_file",
                                     {"users.json"}))
                  /\ users' = users
             ELSE /\ users' \in SeqUpTo(UserPool, Room)
                  /\ pc' = "load_surveys"
                  /\ raised' = raised
    /\ UNCHANGED <<generator_side, command_side>>
    /\ UNCHANGED <<api_key, environment_id, idx, connected, surveys, responses,
                   created_users, created_surveys, requests, replies, console>>

\* seed_all line 447
LoadSurveys ==
    /\ pc = "load_surveys"
    /\ \E f \in FileStates :
          /\ files' = [files EXCEPT !["surveys.json"] = f]
          /\ IF _load_json_file(f) # ""
             THEN /\ Raise(Exception(_load_json_file(f), "_load_json_file",
                                     {"surveys.json"}))
                  /\ surveys' = surveys
             ELSE /\ surveys' \in SeqUpTo(SurveyPool, Room)
                  /\ pc' = "load_responses"
                  /\ raised' = raised
    /\ UNCHANGED <<generator_side, command_side>>
    /\ UNCHANGED <<api_key, environment_id, idx, connected, users, responses,
                   created_users, created_surveys, requests, replies, console>>

\* The order in which seed_all runs the seeding phases (lines 460-473).
FirstPhase == "seed_users"

\* Variant of NextPhase: responses are seeded before surveys.
NextPhase_ResponsesFirst(phase) ==
    CASE phase = "seed_users" -> "seed_responses"
      [] phase = "seed_responses" -> "seed_surveys"
      [] phase = "seed_surveys" -> "done"

NextPhase(phase) ==
    CASE phase = "seed_users" -> "seed_surveys"
      [] phase = "seed_surveys" -> "seed_responses"
      [] phase = "seed_responses" -> "done"

\* The closing line of a phase, and of seed_all after its last phase.
PhaseComplete(phase) ==
    <<phase \o "_complete">>
    \o (IF NextPhase(phase) = "done" THEN <<"seeding_complete">> ELSE <<>>)

\* seed_all line 448, and the entry into the first seeding phase
LoadResponses ==
    /\ pc = "load_responses"
    /\ \E f \in FileStates :
          /\ files' = [files EXCEPT !["responses.json"] = f]
          /\ IF _load_json_file(f) # ""
             THEN /\ Raise(Exception(_load_json_file(f), "_load_json_file",
                                     {"responses.json"}))
                  /\ responses' = responses
             ELSE /\ responses' \in SeqUpTo(ResponsePool, Room)
                  /\ pc' = FirstPhase
                  /\ raised' = raised
    /\ UNCHANGED <<generator_side, command_side>>
    /\ UNCHANGED <<api_key, environment_id, idx, connected, users, surveys,
                   created_users, created_surveys, requests, replies, console>>

(***************************************************************************)
(* seed_users (called by seed_all inside try / except Exception)           *)
(***************************************************************************)

\* Variant of CreateEscapes: the loop body has no `except HTTPError`.
CreateEscapes_NoExcept(o) ==
    LET e == _management_request(o) IN
    IF e # "" THEN e
    ELSE IF JsonException(o.body) # "" THEN JsonException(o.body)
    ELSE GetException(o.body)

\* What the body of a loop that reads the id of the created resource raises
\* past its `except HTTPError`, for outcome o of the request: "" if nothing.
\* (seed_users lines 176-194, seed_surveys lines 232-249)
CreateEscapes(o) ==
    LET e == _management_request(o) IN
    IF e = "HTTPError" THEN ""
    ELSE IF e # "" THEN e
    ELSE IF JsonException(o.body) # "" THEN JsonException(o.body)
    ELSE GetException(o.body)

\* Variant of CaughtBySeedAll: seed_all catches nothing around seed_users.
CaughtBySeedAll_Nothing(e) == FALSE

\* Variant of CaughtBySeedAll: seed_all catches HTTPError only.
CaughtBySeedAll_HttpOnly(e) == e = "HTTPError"

\* `except Exception` of seed_all around seed_users: every exception the
\* model raises is an Exception.
CaughtBySeedAll(e) == e # ""

\* One turn of the loop of seed_users.  An exception that escapes the loop
\* leaves seed_users and is caught by seed_all, which prints a warning and
\* goes on with the next phase.
SeedUsersIter ==
    /\ pc = "seed_users"
    /\ idx < Len(users)
    /\ \E o \in Outcomes :
          LET user == users[idx + 1]
              data == [email |-> user.email, name |-> user.name, role |-> user.role]
              escaped == CreateEscapes(o)
          IN
          /\ requests' = Append(requests,
                 ManagementRequest(api_key, environment_id, "members", data))
          /\ IF escaped # ""
             THEN /\ replies' = Append(replies, Reply(escaped, o))
                  /\ created_users' = created_users
                  /\ IF CaughtBySeedAll(escaped)
                     THEN /\ console' = Append(console, "users_not_supported")
                          /\ pc' = NextPhase("seed_users")
                          /\ idx' = 0
                          /\ raised' = raised
                     ELSE /\ Raise(Exception(escaped, "seed_users", {}))
                          /\ UNCHANGED <<idx, console>>
             ELSE IF _management_request(o) = "HTTPError"
             THEN /\ replies' = Append(replies, Reply("HTTPError", o))
                  /\ created_users' = DictSet(created_users, user.email, user.email)
                  /\ console' = Append(console, "user_warning")
                  /\ idx' = idx + 1
                  /\ UNCHANGED <<pc, raised>>
             ELSE /\ replies' = Append(replies, Reply("", o))
                  /\ created_users' =
                        DictSet(created_users, user.email, GetId(o.body, user.email))
                  /\ console' = Append(console, "user_created")
                  /\ idx' = idx + 1
                  /\ UNCHANGED <<pc, raised>>
    /\ UNCHANGED <<generator_side, command_side>>
    /\ UNCHANGED <<api_key, environment_id, connected, files, users, surveys,
                   responses, created_surveys>>

\* The loop of seed_users is exhausted: seed_users returns to seed_all.
SeedUsersReturn ==
    /\ pc = "seed_users"
    /\ idx = Len(users)
    /\ pc' = NextPhase("seed_users")
    /\ idx' = 0
    /\ console' = console \o PhaseComplete("seed_users")
    /\ UNCHANGED <<generator_side, command_side>>
    /\ UNCHANGED <<api_key, environment_id, connected, files, users, surveys,
                   responses, created_users, created_surveys, requests, replies,
                   raised>>

(***************************************************************************)
(* seed_surveys                                                            *)
(***************************************************************************)

\* The lines printed for a survey whose POST raised HTTPError: the error, and
\* the error details when the error body is JSON (lines 250-262).
SurveyErrorLines(o) ==
    IF JsonException(o.body) = ""
    THEN <<"survey_failed", "survey_error_details">>
    ELSE <<"survey_failed">>

\* One turn of the loop of seed_surveys.  Nothing in seed_all catches what
\* escapes the loop.
SeedSurveysIter ==
    /\ pc = "seed_surveys"
    /\ idx < Len(surveys)
    /\ \E o \in Outcomes :
          LET survey == surveys[idx + 1]
              escaped == CreateEscapes(o)
          IN
          /\ requests' = Append(requests,
                 ManagementRequest(api_key, environment_id, "surveys",
                                   _prepare_survey_payload(survey)))
          /\ IF escaped # ""
             THEN /\ replies' = Append(replies, Reply(escaped, o))
                  /\ Raise(Exception(escaped, "seed_surveys", {}))
                  /\ UNCHANGED <<idx, created_surveys, console>>
             ELSE IF _management_request(o) = "HTTPError"
             THEN /\ replies' = Append(replies, Reply("HTTPError", o))
                  /\ created_surveys' = DictSet(created_surveys, survey.id, survey.id)
                  /\ console' = console \o SurveyErrorLines(o)
                  /\ idx' = idx + 1
                  /\ UNCHANGED <<pc, raised>>
             ELSE /\ replies' = Append(replies, Reply("", o))
                  /\ created_surveys' =
                        DictSet(created_surveys, survey.id, GetId(o.body, None))
                  /\ console' = Append(console, "survey_created")
                  /\ idx' = idx + 1
                  /\ UNCHANGED <<pc, raised>>
    /\ UNCHANGED <<generator_side, command_side>>
    /\ UNCHANGED <<api_key, environment_id, connected, files, users, surveys,
                   responses, created_users>>

\* The loop of seed_surveys is exhausted: seed_surveys returns to seed_all.
SeedSurveysReturn ==
    /\ pc = "seed_surveys"
    /\ idx = Len(surveys)
    /\ pc' = NextPhase("seed_surveys")
    /\ idx' = 0
    /\ console' = console \o PhaseComplete("seed_surveys")
    /\ UNCHANGED <<generator_side, command_side>>
    /\ UNCHANGED <<api_key, environment_id, connected, files, users, surveys,
                   responses, created_users, created_surveys, requests, replies,
                   raised>>

(***************************************************************************)
(* seed_responses                                                          *)
(***************************************************************************)

\* What the body of the seed_responses loop raises past its `except HTTPError`
\* (lines 304-310); the body of the reply is not read.
SubmitEscapes(o) ==
    LET e == _client_request(o) IN
    IF e = "HTTPError" THEN "" ELSE e

\* One turn of the loop of seed_responses.
SeedResponsesIter ==
    /\ pc = "seed_responses"
    /\ idx < Len(responses)
    /\ \E o \in Outcomes :
          LET response == responses[idx + 1]
              api_survey_id == ResolveSurveyId(created_surveys, response)
              response_data == _prepare_response_payload(response, api_survey_id)
              escaped == SubmitEscapes(o)
          IN
          /\ requests' = Append(requests,
                 ClientRequest(environment_id, api_survey_id, response_data))
          /\ IF escaped # ""
             THEN /\ replies' = Append(replies, Reply(escaped, o))
                  /\ Raise(Exception(escaped, "seed_responses", {}))
                  /\ UNCHANGED <<idx, console>>
             ELSE IF _client_request(o) = "HTTPError"
             THEN /\ replies' = Append(replies, Reply("HTTPError", o))
                  /\ console' = Append(console, "response_failed")
                  /\ idx' = idx + 1
                  /\ UNCHANGED <<pc, raised>>
             ELSE /\ replies' = Append(replies, [exception |-> "", id |-> None])
                  /\ idx' = idx + 1
                  /\ UNCHANGED <<pc, raised, console>>
    /\ UNCHANGED <<generator_side, command_side>>
    /\ UNCHANGED <<api_key, environment_id, connected, files, users, surveys,
                   responses, created_users, created_surveys>>

\* The loop of seed_responses is exhausted: seed_responses returns to
\* seed_all, which prints its closing lines.
SeedResponsesReturn ==
    /\ pc = "seed_responses"
    /\ idx = Len(responses)
    /\ pc' = NextPhase("seed_responses")
    /\ idx' = 0
    /\ console' = console \o PhaseComplete("seed_responses")
    /\ UNCHANGED <<generator_side, command_side>>
    /\ UNCHANGED <<api_key, environment_id, connected, files, users, surveys,
                   responses, created_users, created_surveys, requests, replies,
                   raised>>

Next ==
    \/ ValidateConfig
    \/ CheckConnection
    \/ LoadUsers
    \/ LoadSurveys
    \/ LoadResponses
    \/ SeedUsersIter
    \/ SeedUsersReturn
    \/ SeedSurveysIter
    \/ SeedSurveysReturn
    \/ SeedResponsesIter
    \/ SeedResponsesReturn

Spec == Init /\ [][Next]_vars

(***************************************************************************)
(* Reading the run: the requests of each phase, with what they came to     *)
(***************************************************************************)

IsProbe(r) == r.api = "probe"

IsMember(r) == r.api = "management" /\ r.endpoint[3] = "members"

IsSurvey(r) == r.api = "management" /\ r.endpoint[3] = "surveys"

IsClient(r) == r.api = "client"

IsSeeding(r) == ~IsProbe(r)

\* The i-th request together with its reply.
Exchanges ==
    [i \in DOMAIN requests |-> [request |-> requests[i], reply |-> replies[i]]]

IsMemberExchange(x) == IsMember(x.request)

IsSurveyExchange(x) == IsSurvey(x.request)

IsClientExchange(x) == IsClient(x.request)

MemberExchanges == SelectSeq(Exchanges, IsMemberExchange)

SurveyExchanges == SelectSeq(Exchanges, IsSurveyExchange)

ClientExchanges == SelectSeq(Exchanges, IsClientExchange)

\* seed_surveys has returned to seed_all.
SurveysReturned ==
    \E i \in DOMAIN console : console[i] = "seed_surveys_complete"

\* seed_users was left by an exception, which seed_all turned into a warning.
UsersRaised ==
    \E i \in DOMAIN console : console[i] = "users_not_supported"

\* The survey POSTs issued so far carry the first surveys of the list, in order.
SurveysPostedInOrder ==
    /\ Len(SurveyExchanges) <= Len(surveys)
    /\ \A k \in DOMAIN SurveyExchanges :
          SurveyExchanges[k].request.data = _prepare_survey_payload(surveys[k])

\* The submissions issued so far carry the first responses of the list, in order.
ResponsesSubmittedInOrder ==
    /\ Len(ClientExchanges) <= Len(responses)
    /\ \A k \in DOMAIN ClientExchanges :
          /\ ClientExchanges[k].request.data.finished = responses[k].finished
          /\ DOMAIN ClientExchanges[k].request.data.data =
                { responses[k].answers[a].question_id : a \in DOMAIN responses[k].answers }

(***************************************************************************)
(* Claims                                                                  *)
(***************************************************************************)

\* C1: every response is submitted to created_surveys[response.survey_id] when
\* the local id is a key of the mapping table and to response.survey_id itself
\* when it is not; the request path and the payload's surveyId carry the same
\* resolved id.
C1_ResponseTargetsResolvedSurvey ==
    /\ Len(ClientExchanges) <= Len(responses)
    /\ \A k \in DOMAIN ClientExchanges :
          LET local == responses[k].survey_id
              target == IF local \in DOMAIN created_surveys
                        THEN created_surveys[local] ELSE local
              request == ClientExchanges[k].request
          IN /\ request.endpoint = <<environment_id, "displays", target, "responses">>
             /\ request.data.surveyId = target

\* C1 witness: with local-1 mapped to remote-9, one response was submitted to
\* remote-9 and a response for the unmapped local-2 was submitted to local-2.
C1_Witness ==
    /\ pc = "done"
    /\ DOMAIN created_surveys = {"local-1"}
    /\ created_surveys["local-1"] = "remote-9"
    /\ \E j, k \in DOMAIN ClientExchanges :
          /\ responses[j].survey_id = "local-1"
          /\ ClientExchanges[j].request.data.surveyId = "remote-9"
          /\ responses[k].survey_id = "local-2"
          /\ ClientExchanges[k].request.data.surveyId = "local-2"

\* C2: a survey POST answered with an HTTP error status does not make
\* seed_surveys raise and does not stop the loop: the next survey of the list
\* is POSTed (or is the next thing to happen), and when every POST was
\* answered (with success or an HTTP error status) seed_surveys returns with
\* every survey of the list POSTed, in order.
C2_HttpErrorDoesNotStopSurveys ==
    /\ raised.origin = "seed_surveys" => raised.type # "HTTPError"
    /\ SurveysPostedInOrder
    /\ \A k \in DOMAIN SurveyExchanges :
          SurveyExchanges[k].reply.exception = "HTTPError" =>
             \/ k < Len(SurveyExchanges)
             \/ pc = "seed_surveys" /\ idx = k /\ raised = NoException
             \/ k = Len(surveys) /\ SurveysReturned
    /\ SurveysReturned => Len(SurveyExchanges) = Len(surveys)

\* C2 witness: seed_surveys returned although the POST of the first survey
\* was answered with an HTTP error status, and a later survey was POSTed.
C2_Witness ==
    /\ SurveysReturned
    /\ Len(SurveyExchanges) >= 2
    /\ SurveyExchanges[1].reply.exception = "HTTPError"

\* C3 (as claimed): no failure of an item's remote request, whether an HTTP
\* error status, a refused connection or a timeout, leaves seed_surveys or
\* seed_responses.
C3_ItemFailureStaysInLoop ==
    raised.origin \in {"seed_surveys", "seed_responses"} =>
        raised.type \notin {"HTTPError", "ConnectionError", "Timeout"}

\* C4 (as claimed): seed_users never raises to its caller, and once it is over
\* every user of the list has been attempted.
C4_SeedUsersNeverRaises ==
    /\ ~UsersRaised
    /\ (pc \in {"seed_surveys", "seed_responses", "done"}
          \/ raised.origin \in {"seed_surveys", "seed_responses"})
       => Len(MemberExchanges) = Len(users)

\* C5 (as claimed): after seed_surveys returns, the local id of every survey of
\* the list is a key of created_surveys, mapped to the id the server returned
\* when that survey's POST succeeded and to the local id when it failed with an
\* HTTP error.
C5_EverySurveyMapped ==
    SurveysReturned =>
        \A k \in DOMAIN surveys :
            /\ surveys[k].id \in DOMAIN created_surveys
            /\ SurveyExchanges[k].reply.exception = "" =>
                  created_surveys[surveys[k].id] = SurveyExchanges[k].reply.id
            /\ SurveyExchanges[k].reply.exception = "HTTPError" =>
                  created_surveys[surveys[k].id] = surveys[k].id

\* C6: within one run every member-creation request precedes every
\* survey-creation request, which precedes every response submission.
PhaseRank(r) ==
    IF IsProbe(r) THEN 0
    ELSE IF IsMember(r) THEN 1
    ELSE IF IsSurvey(r) THEN 2
    ELSE 3

C6_PhasesInDependencyOrder ==
    \A i, j \in DOMAIN requests :
        i < j => PhaseRank(requests[i]) <= PhaseRank(requests[j])

\* C6 witness: a completed run that issued requests of all three phases.
C6_Witness ==
    /\ pc = "done"
    /\ Len(MemberExchanges) >= 1
    /\ Len(SurveyExchanges) >= 1
    /\ Len(ClientExchanges) >= 1

\* C7 (as claimed): the configuration error names exactly the settings that
\* are missing.
MissingSettings ==
    (IF api_key \in {None, ""} THEN {"FORMBRICKS_API_KEY"} ELSE {})
    \cup (IF environment_id \in {None, ""} THEN {"FORMBRICKS_ENVIRONMENT_ID"} ELSE {})

C7_NamesExactlyTheMissing ==
    raised.type = "ValueError" /\ raised.origin = "seed_all" =>
        raised.names = MissingSettings

\* C8: with the API key or the environment id missing, seed_all ends with the
\* configuration error and the run issues no request at all, the reachability
\* probe included.
C8_ConfigErrorBeforeNetwork ==
    MissingSettings # {} =>
        /\ requests = <<>>
        /\ pc \in {"validate", "raised"}
        /\ pc = "raised" => raised.type = "ValueError" /\ raised.origin = "seed_all"

\* C8 witness: seed_all raised the configuration error for a missing
\* environment id (the key being set).
C8_Witness ==
    /\ pc = "raised"
    /\ raised.type = "ValueError"
    /\ api_key = "fbk-key"
    /\ environment_id = None

\* C9: a seeding request is issued only after the probe succeeded and all
\* three interchange files were found and deserialized; a failed probe ends
\* the run with a connectivity error and a missing file with a not-found
\* error, nothing having been submitted.
C9_NoSeedingBeforeProbeAndFiles ==
    /\ (\E i \in DOMAIN requests : IsSeeding(requests[i])) =>
          /\ connected
          /\ \A f \in FileNames : files[f] = "ok"
    /\ (requests # <<>> /\ ~connected) =>
          /\ pc = "raised"
          /\ raised.type = "ConnectionError"
          /\ \A i \in DOMAIN requests : IsProbe(requests[i])
    /\ (\E f \in FileNames : files[f] = "missing") =>
          /\ pc = "raised"
          /\ raised.type = "FileNotFoundError"
          /\ \A i \in DOMAIN requests : IsProbe(requests[i])

\* C9 witness: the probe succeeded, users.json and surveys.json loaded, and
\* responses.json was missing.
C9_Witness ==
    /\ connected
    /\ files["users.json"] = "ok"
    /\ files["surveys.json"] = "ok"
    /\ files["responses.json"] = "missing"
    /\ Len(users) >= 1
    /\ Len(surveys) >= 1

\* C10: an exception raised by seed_users never ends seed_all: seed_all has
\* printed the warning, then runs seed_surveys from the first survey of the
\* list and seed_responses from the first response, over the whole lists.
C10_UsersExceptionDowngraded ==
    /\ raised.origin # "seed_users"
    /\ UsersRaised =>
          /\ pc \in {"seed_surveys", "seed_responses", "done", "raised"}
          /\ MemberExchanges[Len(MemberExchanges)].reply.exception
                \notin {"", "HTTPError"}
          /\ SurveysPostedInOrder
          /\ ResponsesSubmittedInOrder
          /\ pc \in {"seed_responses", "done"} => Len(SurveyExchanges) = Len(surveys)
          /\ pc = "done" => Len(ClientExchanges) = Len(responses)

\* C10 witness: seed_users was left by an exception on its first user, and
\* seed_all still completed after seeding a survey and a response.
C10_Witness ==
    /\ pc = "done"
    /\ UsersRaised
    /\ Len(users) >= 1
    /\ Len(MemberExchanges) = 1
    /\ Len(SurveyExchanges) >= 1
    /\ Len(ClientExchanges) >= 1

(***************************************************************************)
(* DataGenerator._extract_json (src/src/generator.py)                      *)
(***************************************************************************)
MaxLen == 5

\* A text is a sequence of characters; "a" stands for every character that is
\* not one of the four delimiters.
Chars == {"{", "}", "[", "]", "a"}

Texts == SeqUpTo(Chars, MaxLen)

Min(S) == CHOOSE m \in S : \A n \in S : m <= n

Max(S) == CHOOSE m \in S : \A n \in S : n <= m

\* The indices (from 0, as Python counts) at which ch stands in t.
Positions(t, ch) == {i \in 0..(Len(t) - 1) : t[i + 1] = ch}

\* Variant of find: a character that does not occur is reported at index 0.
find_ZeroWhenAbsent(t, ch) ==
    IF Positions(t, ch) = {} THEN 0 ELSE Min(Positions(t, ch))

\* str.find: the first index of ch, -1 when it does not occur.
find(t, ch) ==
    IF Positions(t, ch) = {} THEN -1 ELSE Min(Positions(t, ch))

\* Variant of rfind: the first index instead of the last.
rfind_First(t, ch) ==
    IF Positions(t, ch) = {} THEN -1 ELSE Min(Positions(t, ch))

\* str.rfind: the last index of ch, -1 when it does not occur.
rfind(t, ch) ==
    IF Positions(t, ch) = {} THEN -1 ELSE Max(Positions(t, ch))

\* t[start:stop] for indices within the text: empty when stop <= start.
Slice(t, start, stop) ==
    IF stop <= start THEN <<>> ELSE SubSeq(t, start + 1, stop)

\* _extract_json lines 495-499: the first "{", and only when there is none
\* the first "[".
ExtractStart(t) ==
    IF find(t, "{") = -1 THEN find(t, "[") ELSE find(t, "{")

\* _extract_json lines 501-505: the last "}", and only when there is none the
\* last "]".
ExtractEnd(t) ==
    IF rfind(t, "}") = -1 THEN rfind(t, "]") ELSE rfind(t, "}")

_extract_json(t) ==
    IF ExtractStart(t) # -1 /\ ExtractEnd(t) # -1
    THEN Slice(t, ExtractStart(t), ExtractEnd(t) + 1)
    ELSE t

\* A call of _extract_json on any text.
InitExtract ==
    /\ SeederIdle
    /\ AnswerIdle
    /\ ResponsesIdle
    /\ RunIdle
    /\ CommandIdle
    /\ text \in Texts
    /\ extracted = <<>>

ExtractJson ==
    /\ extracted = <<>>
    /\ extracted' = <<_extract_json(text)>>
    /\ UNCHANGED <<text, seeder_side, command_side, answer_side, responses_side, run_side>>

NextExtract ==
    \/ ExtractJson

SpecExtract == InitExtract /\ [][NextExtract]_vars

(***************************************************************************)
(* Claims about _extract_json                                              *)
(***************************************************************************)
Delimiters == {"{", "}", "[", "]"}

Openers == {"{", "["}

NoneOf(t, S) == \A i \in DOMAIN t : t[i] \notin S

\* The text is a prefix without delimiters, a payload from index i to index j
\* (counted from 1) and a suffix without delimiters.
Surrounds(t, i, j) ==
    /\ NoneOf(SubSeq(t, 1, i - 1), Delimiters)
    /\ NoneOf(SubSeq(t, j + 1, Len(t)), Delimiters)

\* C15: for a text made of a prefix without delimiters, a payload that begins
\* with "{" and ends with "}", and a suffix without delimiters, _extract_json
\* returns exactly the payload.
C15_ObjectPayloadReturned ==
    \A n \in DOMAIN extracted :
        \A i \in DOMAIN text : \A j \in DOMAIN text :
            (i < j /\ text[i] = "{" /\ text[j] = "}" /\ Surrounds(text, i, j))
                => extracted[n] = SubSeq(text, i, j)

C15_Witness ==
    /\ text = <<"a", "{", "a", "}", "a">>
    /\ extracted = <<SubSeq(text, 2, 4)>>

\* C16: a text without "{" and without "[" is returned unchanged, whatever
\* closing delimiters it holds.
C16_NoOpenerReturnsInput ==
    \A n \in DOMAIN extracted :
        NoneOf(text, Openers) => extracted[n] = text

C16_Witness ==
    /\ text = <<"a", "}", "a">>
    /\ extracted = <<text>>

\* Where the first opening delimiter of either kind stands, counted from 1.
FirstOpener(t) == Min({i \in DOMAIN t : t[i] \in Openers})

Closer(ch) == IF ch = "{" THEN "}" ELSE "]"

\* Where the closing delimiters matching the first opening one stand.
Closings(t) == {j \in DOMAIN t : t[j] = Closer(t[FirstOpener(t)])}

\* C17 (as claimed): the start is the first "{" or "[", whichever comes
\* first; the end is the last closing delimiter of the same kind; what lies
\* between them, both included, is returned.
C17_StartsAtFirstOpenerOfEitherKind ==
    \A n \in DOMAIN extracted :
        (~NoneOf(text, Openers) /\ Closings(text) # {})
            => extracted[n] = SubSeq(text, FirstOpener(text), Max(Closings(text)))

(***************************************************************************)
(* DataGenerator._generate_answer_for_question (src/src/generator.py)      *)
(***************************************************************************)
MaxRange == 6

MaxChoices == 4

QuestionTypes ==
    {"multipleChoiceSingle", "multipleChoiceMulti", "openText", "rating", "nps",
     "cta", "consent"}

ChoiceIds == <<"choice-1", "choice-2", "choice-3", "choice-4", "choice-5">>

\* The first n choices.
Choices(n) == [i \in 1..n |-> [id |-> ChoiceIds[i], label |-> ChoiceIds[i]]]

\* Two choices with the same id: QuestionChoice.id is a plain str.
SameIdChoices ==
    << [id |-> "choice-1", label |-> "Yes"], [id |-> "choice-1", label |-> "No"] >>

\* Question.range is Optional[int] and Question.choices an optional list, with
\* no further constraint: any integer and any list (the empty one included)
\* pass validation.  A field left out of the record is an unset field.
Questions ==
    LET base == { [id |-> "q1", type |-> t, headline |-> "How was it?"] :
                    t \in QuestionTypes }
        WithRange(q) ==
            {q} \cup { [f \in DOMAIN q \cup {"range"} |->
                          IF f = "range" THEN r ELSE q[f]] : r \in -1..MaxRange }
        WithChoices(q) ==
            {q} \cup { [f \in DOMAIN q \cup {"choices"} |->
                          IF f = "choices" THEN c ELSE q[f]] :
                       c \in {Choices(n) : n \in 0..MaxChoices} \cup {SameIdChoices} }
    IN  UNION { WithChoices(q) : q \in UNION { WithRange(b) : b \in base } }

\* What a call came to: a value returned or an exception raised.
NoValue == [none |-> TRUE]

Returned(v) == [exception |-> "", value |-> v]

Raised(type) == [exception |-> type, value |-> NoValue]

\* Variant of randint: the upper end is one too far.
randint_OffByOne(a, b) ==
    IF a > b THEN {Raised("ValueError")}
    ELSE {Returned(IntValue(n)) : n \in a..(b + 1)}

\* random.randint(a, b): any integer of a..b, ValueError when the range is empty.
randint(a, b) ==
    IF a > b THEN {Raised("ValueError")}
    ELSE {Returned(IntValue(n)) : n \in a..b}

\* Variant of sample: entries are drawn with replacement.
sample_WithReplacement(n, k) == [1..k -> 1..n]

\* random.sample(population, k) for 0 <= k <= n: the positions of any k
\* distinct entries of a population of n, in any order.
sample(n, k) ==
    {s \in [1..k -> 1..n] : \A i \in 1..k : \A j \in 1..k : s[i] = s[j] => i = j}

\* `question.range or 5`
RangeOr5(q) == IF Truthy(q, "range") THEN q.range ELSE 5

\* Variant of Min2: the second argument, whichever is smaller.
Min2_Second(a, b) == b

\* min(a, b)
Min2(a, b) == IF a <= b THEN a ELSE b

\* _generate_text_response lines 466-479
TextResponses ==
    {"The product works well overall, but could use some improvements in the UI.",
     "Very satisfied with the service. Support team is responsive and helpful.",
     "It meets our needs, though the learning curve was steep initially.",
     "Great tool! Has saved us a lot of time in our workflow.",
     "Works as expected. Would appreciate more integration options.",
     "Solid product. The recent updates have been particularly useful.",
     "Good value for money. Some features could be more intuitive.",
     "Excellent experience so far. Looking forward to upcoming features.",
     "It's okay. Does the job but nothing exceptional.",
     "Really impressed with the performance and reliability."}

\* Everything one call of _generate_answer_for_question can come to.
_generate_answer_for_question(q) ==
    CASE q.type = "rating" -> randint(1, RangeOr5(q))
      [] q.type = "nps" -> randint(0, 10)
      [] q.type = "multipleChoiceSingle" ->
            IF Truthy(q, "choices")
            THEN {Returned(StrValue(q.choices[i].id)) : i \in DOMAIN q.choices}
            ELSE {Returned(StrValue("choice-1"))}
      [] q.type = "multipleChoiceMulti" ->
            IF Truthy(q, "choices")
            THEN UNION { {Returned(ListValue([i \in DOMAIN s |-> q.choices[s[i]].id])) :
                            s \in sample(Len(q.choices), k)} :
                         k \in 1..Min2(3, Len(q.choices)) }
            ELSE {Returned(ListValue(<<"choice-1">>))}
      [] q.type = "openText" -> {Returned(StrValue(t)) : t \in TextResponses}
      [] OTHER -> {Returned(StrValue("Yes"))}

\* A call of _generate_answer_for_question on any question the schema accepts.
InitAnswer ==
    /\ SeederIdle
    /\ ExtractIdle
    /\ ResponsesIdle
    /\ RunIdle
    /\ CommandIdle
    /\ question \in Questions
    /\ answer = <<>>

GenerateAnswer ==
    /\ answer = <<>>
    /\ \E a \in _generate_answer_for_question(question) : answer' = <<a>>
    /\ UNCHANGED <<question, seeder_side, command_side, extract_side, responses_side, run_side>>

NextAnswer ==
    \/ GenerateAnswer

SpecAnswer == InitAnswer /\ [][NextAnswer]_vars

(***************************************************************************)
(* Claims about _generate_answer_for_question                              *)
(***************************************************************************)

\* The integer a call returned lies in lo..hi.
ReturnedWithin(a, lo, hi) ==
    a.exception = "" =>
        /\ DOMAIN a.value = {"int"}
        /\ a.value.int \in lo..hi

\* C13 (as claimed): for a rating question, with any range the schema accepts
\* or none, the value is an integer of 1..range (range 5 when unset); for an
\* nps question it is an integer of 0..10 whatever the range.
C13_RatingAndNpsWithinRange ==
    \A n \in DOMAIN answer :
        /\ question.type = "rating" =>
              ReturnedWithin(answer[n], 1,
                             IF "range" \in DOMAIN question THEN question.range ELSE 5)
        /\ question.type = "nps" => ReturnedWithin(answer[n], 0, 10)

(***************************************************************************)
(* DataGenerator.generate_responses (src/src/generator.py)                 *)
(***************************************************************************)
MaxPerSurvey == 3

GenUser(name) ==
    [name |-> name, email |-> name \o "@example.com", role |-> "member"]

\* User pools: UserList checks neither the number of users nor that their
\* emails differ.
UserLists ==
    { <<>>,
      <<GenUser("ada")>>,
      <<GenUser("ada"), GenUser("bob")>>,
      <<GenUser("ada"), GenUser("bob"), GenUser("cy")>>,
      <<GenUser("ada"), GenUser("ada")>> }

GenQuestion(id, type) == [id |-> id, type |-> type, headline |-> "How was it?"]

GenSurvey(id, questions) == [id |-> id, name |-> id, questions |-> questions]

\* One rating question on a scale of two.
Survey1 ==
    GenSurvey("survey-1",
              << [id |-> "q1", type |-> "rating", headline |-> "How was it?",
                  range |-> 2] >>)

\* One multipleChoiceSingle question and one cta question.
Survey2 ==
    GenSurvey("survey-2",
              << [id |-> "q1", type |-> "multipleChoiceSingle",
                  headline |-> "Pick one", choices |-> Choices(1)],
                 GenQuestion("q2", "cta") >>)

\* A rating question with a negative range, which the schema accepts.
Survey3 ==
    GenSurvey("survey-3",
              << [id |-> "q1", type |-> "rating", headline |-> "How was it?",
                  range |-> -1] >>)

\* Two questions with the same id, which the schema accepts.
Survey4 ==
    GenSurvey("survey-4", <<GenQuestion("q1", "cta"), GenQuestion("q1", "consent")>>)

\* A multipleChoiceSingle question with an empty choices list and a
\* multipleChoiceMulti question with no choices at all (choices is
\* Optional[List[QuestionChoice]]), which the schema accepts.
Survey5 ==
    GenSurvey("survey-5",
              << [id |-> "q1", type |-> "multipleChoiceSingle",
                  headline |-> "Pick one", choices |-> <<>>],
                 GenQuestion("q2", "multipleChoiceMulti") >>)

\* Survey lists: SurveyList does not check that survey ids differ.
SurveyLists ==
    { <<>>, <<Survey1>>, <<Survey1, Survey2>>, <<Survey2, Survey2>>,
      <<Survey3>>, <<Survey4>> }

\* generate_responses lines 389-394
MakeAnswer(q, v) == [question_id |-> q.id, value |-> v]

\* Some question of the survey makes _generate_answer_for_question raise.
AnswerRaises(survey) ==
    \E i \in DOMAIN survey.questions :
        \E a \in _generate_answer_for_question(survey.questions[i]) :
            a.exception # ""

\* Variant of AnswersOf: only the first question is answered.
AnswersOf_FirstQuestionOnly(survey) ==
    LET qs == SubSeq(survey.questions, 1, 1)
        values == UNION {_generate_answer_for_question(qs[i]) : i \in DOMAIN qs}
    IN  { [i \in DOMAIN qs |-> MakeAnswer(qs[i], v[i].value)] :
            v \in { f \in [DOMAIN qs -> values] :
                      \A i \in DOMAIN qs :
                          /\ f[i] \in _generate_answer_for_question(qs[i])
                          /\ f[i].exception = "" } }

\* generate_responses lines 383-394: the answers lists one responding user can
\* get, one Answer per question of the survey, in question order.
AnswersOf(survey) ==
    LET qs == survey.questions
        values == UNION {_generate_answer_for_question(qs[i]) : i \in DOMAIN qs}
    IN  { [i \in DOMAIN qs |-> MakeAnswer(qs[i], v[i].value)] :
            v \in { f \in [DOMAIN qs -> values] :
                      \A i \in DOMAIN qs :
                          /\ f[i] \in _generate_answer_for_question(qs[i])
                          /\ f[i].exception = "" } }

\* generate_responses lines 396-403
MakeResponse(survey, user, answers) ==
    [survey_id |-> survey.id, user_email |-> user.email, answers |-> answers,
     finished |-> TRUE]

\* One pass of the loop over the surveys came to an exception ...
PassRaised(type) == [exception |-> type, picked |-> <<>>, responses |-> <<>>]

\* ... or to the responses of the users picked.
PassDone(picked, rs) == [exception |-> "", picked |-> picked, responses |-> rs]

\* generate_responses lines 369-403: everything one pass of the loop can come
\* to.  random.sample raises ValueError on a negative count.
SurveyPass(survey, us, lo, hi) ==
    UNION {
        IF k.exception # "" THEN {PassRaised(k.exception)}
        ELSE IF Min2(k.value.int, Len(us)) < 0 THEN {PassRaised("ValueError")}
        ELSE LET m == Min2(k.value.int, Len(us))
             IN  UNION {
                    { PassDone(s, [i \in 1..m |->
                                     MakeResponse(survey, us[s[i]], a[i])]) :
                        a \in [1..m -> AnswersOf(survey)] }
                    \cup (IF m > 0 /\ AnswerRaises(survey)
                          THEN {PassRaised("ValueError")} ELSE {}) :
                    s \in sample(Len(us), m) }
        : k \in randint(lo, hi) }

\* A call of generate_responses on any surveys, users and bounds.
InitResponses ==
    /\ SeederIdle
    /\ ExtractIdle
    /\ AnswerIdle
    /\ RunIdle
    /\ CommandIdle
    /\ gen_pc = "generate_responses"
    /\ gen_surveys \in SurveyLists
    /\ gen_users \in UserLists
    /\ min_per_survey \in -1..MaxPerSurvey
    /\ max_per_survey \in -1..MaxPerSurvey
    /\ responding_users = <<>>
    /\ all_responses = <<>>
    /\ gen_raised = ""

\* One pass of `for survey in surveys.surveys`.
GenerateForSurvey ==
    /\ gen_pc = "generate_responses"
    /\ gen_raised = ""
    /\ Len(responding_users) < Len(gen_surveys)
    /\ \E o \in SurveyPass(gen_surveys[Len(responding_users) + 1], gen_users,
                           min_per_survey, max_per_survey) :
          IF o.exception # ""
          THEN /\ gen_raised' = o.exception
               /\ UNCHANGED <<responding_users, all_responses>>
          ELSE /\ responding_users' = Append(responding_users, o.picked)
               /\ all_responses' = all_responses \o o.responses
               /\ UNCHANGED gen_raised
    /\ UNCHANGED <<gen_pc, gen_surveys, gen_users, min_per_survey, max_per_survey>>
    /\ UNCHANGED <<seeder_side, command_side, extract_side, answer_side, run_side>>

\* generate_responses lines 406-412: the loop is over, the list is returned.
ReturnResponses ==
    /\ gen_pc = "generate_responses"
    /\ gen_raised = ""
    /\ Len(responding_users) = Len(gen_surveys)
    /\ gen_pc' = "returned"
    /\ UNCHANGED <<gen_surveys, gen_users, min_per_survey, max_per_survey,
                   responding_users, all_responses, gen_raised>>
    /\ UNCHANGED <<seeder_side, command_side, extract_side, answer_side, run_side>>

NextResponses ==
    \/ GenerateForSurvey
    \/ ReturnResponses

SpecResponses == InitResponses /\ [][NextResponses]_vars

(***************************************************************************)
(* Claims about generate_responses                                         *)
(***************************************************************************)
RECURSIVE ResponsesBefore(_)
\* How many responses the surveys before the i-th one got.
ResponsesBefore(i) ==
    IF i <= 1 THEN 0
    ELSE ResponsesBefore(i - 1) + Len(responding_users[i - 1])

\* The responses generated for the i-th survey of the list.
ResponsesOf(i) ==
    SubSeq(all_responses, ResponsesBefore(i) + 1,
           ResponsesBefore(i) + Len(responding_users[i]))

Distinct(seq) == \A a \in DOMAIN seq : \A b \in DOMAIN seq : seq[a] = seq[b] => a = b

Emails(seq) == [a \in DOMAIN seq |-> seq[a].user_email]

\* C11: the responding users of one survey are pairwise distinct entries of
\* the user pool, never more than the pool holds, and each response of the
\* survey carries the email of its entry; so when the emails of the pool are
\* pairwise distinct, no email occurs twice among the responses of one survey.
C11_RespondentsDistinct ==
    \A i \in DOMAIN responding_users :
        LET picked == responding_users[i]
        IN  /\ Distinct(picked)
            /\ \A a \in DOMAIN picked : picked[a] \in DOMAIN gen_users
            /\ Len(picked) <= Len(gen_users)
            /\ Len(ResponsesOf(i)) = Len(picked)
            /\ \A a \in DOMAIN picked :
                  ResponsesOf(i)[a].user_email = gen_users[picked[a]].email
            /\ Distinct([a \in DOMAIN gen_users |-> gen_users[a].email])
                  => Distinct(Emails(ResponsesOf(i)))

C11_Witness ==
    /\ gen_pc = "returned"
    /\ Len(gen_users) = 3
    /\ Len(gen_surveys) = 2
    /\ Len(responding_users[1]) = 3
    /\ Len(responding_users[2]) = 2

\* C12: for 0 <= min_per_survey <= max_per_survey every survey gets exactly
\* min(k, |users|) responses for some k of min_per_survey..max_per_survey, and
\* the list returned holds between |surveys| * min(min_per_survey, |users|)
\* and |surveys| * min(max_per_survey, |users|) responses.
C12_ResponseCounts ==
    (0 <= min_per_survey /\ min_per_survey <= max_per_survey) =>
        /\ \A i \in DOMAIN responding_users :
              \E k \in min_per_survey..max_per_survey :
                  Len(ResponsesOf(i)) = Min2(k, Len(gen_users))
        /\ gen_pc = "returned" =>
              /\ Len(all_responses) >=
                    Len(gen_surveys) * Min2(min_per_survey, Len(gen_users))
              /\ Len(all_responses) <=
                    Len(gen_surveys) * Min2(max_per_survey, Len(gen_users))

\* 3 users, 2 surveys, min 1, max 2: here 3 responses.
C12_Witness ==
    /\ gen_pc = "returned"
    /\ Len(gen_users) = 3
    /\ gen_surveys = <<Survey1, Survey2>>
    /\ min_per_survey = 1
    /\ max_per_survey = 2
    /\ Len(all_responses) = 3

\* The response was generated for the survey and answers its questions one by
\* one, in question order.
AnswersInQuestionOrder(response, survey) ==
    /\ response.survey_id = survey.id
    /\ Len(response.answers) = Len(survey.questions)
    /\ \A p \in DOMAIN response.answers :
          response.answers[p].question_id = survey.questions[p].id

\* How many answers of the response carry the question id.
Coverage(response, id) ==
    Cardinality({p \in DOMAIN response.answers :
                    response.answers[p].question_id = id})

MIN_RESPONSES_PER_SURVEY == 3

MAX_RESPONSES_PER_SURVEY == 8

\* The names generator.py binds at module level: its imports (lines 8-29),
\* `console` (31) and the class (34).  `requests` is not among them.
ModuleNames ==
    {"json", "random", "Any", "Dict", "List", "ollama", "Console", "Progress",
     "SpinnerColumn", "TextColumn", "config", "Answer", "Question",
     "QuestionChoice", "QuestionType", "Response", "ResponseList", "Survey",
     "SurveyList", "User", "UserList", "UserRole", "console", "DataGenerator"}

\* self.client.list(): it raises, or lists models with or without self.model.
NativeListings == {"raises", "lists_model", "lists_other"}

\* What a listing endpoint answers to a GET: no answer, or status 200 with a
\* model list that holds self.model or does not.
HttpAnswers == {"refused", "200_model", "200_other"}

\* check_ollama_available line 123, `requests.get(url, timeout=3)`: looking up
\* a name the module does not bind raises NameError before any request is sent.
requests_get(path, http) ==
    IF "requests" \in ModuleNames THEN http[path] ELSE "NameError"

\* The largest number of users asked for (NUM_USERS of the environment, or
\* the --users option of the generate command).
MaxUsers == 2

\* check_ollama_available lines 113-148: an exception of requests.get skips the
\* candidate; a 200 answer whose list holds the model ends the check with True.
HttpFallback(http) ==
    \E path \in Candidates : requests_get(path, http) = "200_model"

\* check_ollama_available: True from the native listing (lines 64-106), else
\* from the HTTP fallback, else False (line 158).
check_ollama_available(native, http) ==
    \/ native = "lists_model"
    \/ HttpFallback(http)

\* Variant of Unavailable: the result of the check is ignored.
Unavailable_Ignored(ok) == FALSE

\* generate_all line 515: `if not self.check_ollama_available():`
Unavailable(ok) == ~ok

\* What the backend's chat reply comes to in generate_users / generate_surveys:
\* the chat itself fails; the text extracted is not JSON; it is JSON but no
\* object; it is an object the schema rejects; or it is a list the schema
\* accepts (of any length).
LlmReply(kind, data) == [kind |-> kind, data |-> data]

FailedReplies ==
    {LlmReply(k, <<>>) : k \in {"chat_error", "not_json", "not_object", "invalid"}}

UserReplies ==
    FailedReplies
    \cup {LlmReply("valid", l) : l \in {<<>>,
                                        <<GenUser("ada")>>,
                                        <<GenUser("ada"), GenUser("bob")>>,
                                        <<GenUser("ada"), GenUser("ada")>>}}

SurveyReplies ==
    FailedReplies
    \cup {LlmReply("valid", l) : l \in {<<Survey1>>, <<Survey3>>, <<Survey1, Survey2>>,
                                        <<Survey4>>, <<Survey5>>}}

\* Variant of StepException: a payload the schema rejects is taken as valid.
StepException_NoValidation(reply) ==
    CASE reply.kind = "chat_error" -> "ResponseError"
      [] reply.kind = "not_json" -> "JSONDecodeError"
      [] reply.kind = "not_object" -> "TypeError"
      [] OTHER -> ""

\* generate_users lines 230-241 (generate_surveys 331-341): the exception the
\* step ends with, "" when it returns its list.  Nothing catches it.
StepException(reply) ==
    CASE reply.kind = "chat_error" -> "ResponseError"
      [] reply.kind = "not_json" -> "JSONDecodeError"
      [] reply.kind = "not_object" -> "TypeError"
      [] reply.kind = "invalid" -> "ValidationError"
      [] OTHER -> ""

\* Variant of _save_json: the three files are written together once the last
\* of them is due, nothing before.
_save_json_AllAtTheEnd(d, filename) ==
    IF filename = "responses.json"
    THEN [f \in DOMAIN d |-> "written"]
    ELSE d

\* _save_json: the file is created or overwritten.
_save_json(d, filename) == [d EXCEPT ![filename] = "written"]

\* A call of generate_all: the backend in any condition, the data directory
\* empty or holding files of an earlier run.
InitGenerate ==
    /\ SeederIdle
    /\ ExtractIdle
    /\ AnswerIdle
    /\ exit_status = <<>>
    /\ num_users \in 1..MaxUsers
    /\ gen_pc = "check_ollama_available"
    /\ gen_surveys = <<>>
    /\ gen_users = <<>>
    /\ min_per_survey = MIN_RESPONSES_PER_SURVEY
    /\ max_per_survey = MAX_RESPONSES_PER_SURVEY
    /\ responding_users = <<>>
    /\ all_responses = <<>>
    /\ gen_raised = ""
    /\ native_listing \in NativeListings
    /\ http_listing \in [Candidates -> HttpAnswers]
    /\ available = FALSE
    /\ chats = <<>>
    /\ disk \in [FileNames -> {"absent", "previous"}]
    /\ data_dir \in {d \in BOOLEAN : (\E f \in FileNames : disk[f] # "absent") => d}

\* generate_all lines 515-519
CheckOllama ==
    /\ gen_pc = "check_ollama_available"
    /\ gen_raised = ""
    /\ available' = check_ollama_available(native_listing, http_listing)
    /\ IF Unavailable(available')
       THEN gen_raised' = "RuntimeError" /\ gen_pc' = gen_pc
       ELSE gen_raised' = gen_raised /\ gen_pc' = "ensure_data_dir"
    /\ UNCHANGED <<gen_surveys, gen_users, min_per_survey, max_per_survey,
                   responding_users, all_responses>>
    /\ UNCHANGED <<native_listing, http_listing, chats, data_dir, disk>>
    /\ UNCHANGED <<seeder_side, command_side, extract_side, answer_side>>

\* generate_all line 521
EnsureDataDir ==
    /\ gen_pc = "ensure_data_dir"
    /\ data_dir' = TRUE
    /\ gen_pc' = "generate_users"
    /\ UNCHANGED <<gen_surveys, gen_users, min_per_survey, max_per_survey,
                   responding_users, all_responses, gen_raised>>
    /\ UNCHANGED <<native_listing, http_listing, available, chats, disk>>
    /\ UNCHANGED <<seeder_side, command_side, extract_side, answer_side>>

\* generate_all lines 526-527: generate_users, then users.json is saved.
GenerateUsers ==
    /\ gen_pc = "generate_users"
    /\ gen_raised = ""
    /\ \E reply \in UserReplies :
          /\ chats' = Append(chats, [step |-> "generate_users", reply |-> reply.kind])
          /\ IF StepException(reply) # ""
             THEN /\ gen_raised' = StepException(reply)
                  /\ UNCHANGED <<gen_pc, gen_users, disk>>
             ELSE /\ gen_users' = reply.data
                  /\ disk' = _save_json(disk, "users.json")
                  /\ gen_pc' = "generate_surveys"
                  /\ UNCHANGED gen_raised
    /\ UNCHANGED <<gen_surveys, min_per_survey, max_per_survey, responding_users,
                   all_responses>>
    /\ UNCHANGED <<native_listing, http_listing, available, data_dir>>
    /\ UNCHANGED <<seeder_side, command_side, extract_side, answer_side>>

\* generate_all lines 532-533: generate_surveys, then surveys.json is saved;
\* generate_responses is called next (lines 538-543).
GenerateSurveys ==
    /\ gen_pc = "generate_surveys"
    /\ gen_raised = ""
    /\ \E reply \in SurveyReplies :
          /\ chats' = Append(chats, [step |-> "generate_surveys", reply |-> reply.kind])
          /\ IF StepException(reply) # ""
             THEN /\ gen_raised' = StepException(reply)
                  /\ UNCHANGED <<gen_pc, gen_surveys, disk>>
             ELSE /\ gen_surveys' = reply.data
                  /\ disk' = _save_json(disk, "surveys.json")
                  /\ gen_pc' = "generate_responses"
                  /\ UNCHANGED gen_raised
    /\ UNCHANGED <<gen_users, min_per_survey, max_per_survey, responding_users,
                   all_responses>>
    /\ UNCHANGED <<native_listing, http_listing, available, data_dir>>
    /\ UNCHANGED <<seeder_side, command_side, extract_side, answer_side>>

\* generate_all line 544: responses.json is saved.
SaveResponses ==
    /\ gen_pc = "returned"
    /\ disk' = _save_json(disk, "responses.json")
    /\ gen_pc' = "done"
    /\ UNCHANGED <<gen_surveys, gen_users, min_per_survey, max_per_survey,
                   responding_users, all_responses, gen_raised>>
    /\ UNCHANGED <<native_listing, http_listing, available, chats, data_dir>>
    /\ UNCHANGED <<seeder_side, command_side, extract_side, answer_side>>

NextGenerate ==
    \/ CheckOllama
    \/ EnsureDataDir
    \/ GenerateUsers
    \/ GenerateSurveys
    \/ GenerateForSurvey
    \/ ReturnResponses
    \/ SaveResponses

SpecGenerate == InitGenerate /\ [][NextGenerate]_vars

(***************************************************************************)
(* Claims about generate_all                                               *)
(***************************************************************************)

\* check_ollama_available has returned.
Checked == gen_pc # "check_ollama_available" \/ gen_raised # ""

Written(f) == disk[f] = "written"

\* C18: when the availability check fails generate_all raises RuntimeError
\* there and then: no chat request has been sent and none of users.json,
\* surveys.json and responses.json has been created or overwritten.
C18_UnavailableStopsBeforeWork ==
    (Checked /\ ~available) =>
        /\ gen_raised = "RuntimeError"
        /\ gen_pc = "check_ollama_available"
        /\ chats = <<>>
        /\ \A f \in FileNames : ~Written(f)

C18_Witness ==
    /\ gen_raised = "RuntimeError"
    /\ ~available
    /\ native_listing = "lists_other"
    /\ disk["users.json"] = "previous"

\* The interchange file of a generation step, and the files of the steps
\* after it.
StepFile(step) ==
    CASE step = "generate_users" -> "users.json"
      [] step = "generate_surveys" -> "surveys.json"
      [] OTHER -> "responses.json"

LaterFiles(step) ==
    CASE step = "generate_users" -> {"surveys.json", "responses.json"}
      [] step = "generate_surveys" -> {"responses.json"}
      [] OTHER -> {}

\* The run stopped with an exception in the step, leaving the file of the step
\* and the files of the later steps as they were.
AbortedIn(step) ==
    /\ gen_raised # ""
    /\ gen_pc = step
    /\ \A f \in {StepFile(step)} \cup LaterFiles(step) : ~Written(f)

\* C19: when a step of generate_all does not parse or validate, generate_all
\* ends with the exception, the file of the step is neither created nor
\* overwritten, and no later step runs (no further chat) or writes its file.
C19_FailedStepWritesNothing ==
    /\ \A i \in DOMAIN chats :
          chats[i].reply \in {"not_json", "not_object", "invalid"} =>
              /\ i = Len(chats)
              /\ gen_raised \in {"JSONDecodeError", "TypeError", "ValidationError"}
              /\ AbortedIn(chats[i].step)
    /\ (gen_pc = "generate_responses" /\ gen_raised # "") =>
          AbortedIn("generate_responses")

\* The surveys do not validate: users.json is already written, surveys.json
\* still holds the earlier run's content.
C19_Witness ==
    /\ Len(chats) = 2
    /\ chats[2] = [step |-> "generate_surveys", reply |-> "invalid"]
    /\ gen_raised = "ValidationError"
    /\ Written("users.json")
    /\ disk["surveys.json"] = "previous"
    /\ disk["responses.json"] = "absent"

\* C20 (as claimed): when client.list() raises but one of the HTTP listing
\* endpoints answers 200 with a list that holds the model, the check returns
\* True and generate_all goes on to generation.
C20_HttpFallbackFindsModel ==
    (/\ Checked
     /\ native_listing = "raises"
     /\ \E path \in Candidates : http_listing[path] = "200_model")
        => (available /\ gen_raised # "RuntimeError")

(***************************************************************************)
(* Further claims about _extract_json                                      *)
(***************************************************************************)
Closers == {"}", "]"}

\* r is what stands in t from some index to some later or equal index.
IsSliceOf(r, t) ==
    \E i \in DOMAIN t : \E j \in DOMAIN t : i <= j /\ r = SubSeq(t, i, j)

\* C30 (as claimed): whenever _extract_json returns something other than its
\* input, the result is a non-empty contiguous slice of the input that begins
\* with "{" or "[" and ends with "}" or "]", for every input.
C30_ResultIsDelimitedSlice ==
    \A n \in DOMAIN extracted :
        extracted[n] # text =>
            /\ extracted[n] # <<>>
            /\ IsSliceOf(extracted[n], text)
            /\ extracted[n][1] \in Openers
            /\ extracted[n][Len(extracted[n])] \in Closers

(***************************************************************************)
(* Further claims about _generate_answer_for_question                      *)
(***************************************************************************)

\* The question has choices: the field is set and the list is not empty.
HasChoices(q) == "choices" \in DOMAIN q /\ q.choices # <<>>

\* The ids are those of pairwise distinct choices of the question, in the
\* order given.
FromDistinctChoices(ids, q) ==
    \E s \in [DOMAIN ids -> DOMAIN q.choices] :
        /\ \A i \in DOMAIN ids : \A j \in DOMAIN ids : s[i] = s[j] => i = j
        /\ \A i \in DOMAIN ids : ids[i] = q.choices[s[i]].id

\* C24: a multipleChoiceSingle answer is the id of one of the question's
\* choices; a multipleChoiceMulti answer is a list of 1 to min(3, number of
\* choices) ids of pairwise distinct choices of the question; without choices
\* (field unset or list empty) the answer is "choice-1", respectively the
\* list holding just "choice-1".
C24_ChoiceAnswersFromOwnChoices ==
    \A n \in DOMAIN answer :
        /\ question.type = "multipleChoiceSingle" =>
              /\ answer[n].exception = ""
              /\ DOMAIN answer[n].value = {"str"}
              /\ IF HasChoices(question)
                 THEN \E i \in DOMAIN question.choices :
                          answer[n].value.str = question.choices[i].id
                 ELSE answer[n].value.str = "choice-1"
        /\ question.type = "multipleChoiceMulti" =>
              /\ answer[n].exception = ""
              /\ DOMAIN answer[n].value = {"list"}
              /\ IF HasChoices(question)
                 THEN /\ Len(answer[n].value.list) >= 1
                      /\ Len(answer[n].value.list) <= 3
                      /\ Len(answer[n].value.list) <= Len(question.choices)
                      /\ FromDistinctChoices(answer[n].value.list, question)
                 ELSE answer[n].value.list = <<"choice-1">>

\* Three of four choices picked, not in list order.
C24_Witness ==
    /\ question.type = "multipleChoiceMulti"
    /\ HasChoices(question)
    /\ Len(question.choices) = 4
    /\ answer = <<Returned(ListValue(<<"choice-4", "choice-1", "choice-2">>))>>

(***************************************************************************)
(* Further claims about the seeder                                         *)
(***************************************************************************)

\* Where the last answer to the question stands in the list.
LastAnswerTo(answers, id) ==
    CHOOSE a \in DOMAIN answers :
        /\ answers[a].question_id = id
        /\ \A b \in DOMAIN answers : answers[b].question_id = id => b <= a

\* C25: the payload of a response is {surveyId, finished, data}; finished is
\* the response's; the keys of data are exactly the question ids of the
\* response's answers, each mapped to the value of the last answer with it.
C25_PayloadCollapsesAnswers ==
    /\ Len(ClientExchanges) <= Len(responses)
    /\ \A k \in DOMAIN ClientExchanges :
          LET payload == ClientExchanges[k].request.data
              answers == responses[k].answers
          IN /\ DOMAIN payload = {"surveyId", "finished", "data"}
             /\ payload.finished = responses[k].finished
             /\ DOMAIN payload.data =
                   {answers[a].question_id : a \in DOMAIN answers}
             /\ \A id \in DOMAIN payload.data :
                   payload.data[id] = answers[LastAnswerTo(answers, id)].value

\* A response that answers q1 twice was submitted with the later value.
C25_Witness ==
    /\ Len(ClientExchanges) >= 1
    /\ Len(responses[1].answers) = 2
    /\ responses[1].answers[1].question_id = responses[1].answers[2].question_id
    /\ responses[1].answers[1].value # responses[1].answers[2].value
    /\ ClientExchanges[1].request.data.data =
          [id \in {"q1"} |-> responses[1].answers[2].value]

\* The loop of the phase is no longer running: it was exhausted or left.
PhaseOver(phase) ==
    CASE phase = "seed_users" ->
            \/ pc \in {"seed_surveys", "seed_responses", "done"}
            \/ pc = "raised" /\ raised.origin \in {"seed_surveys", "seed_responses"}
      [] phase = "seed_surveys" ->
            \/ pc \in {"seed_responses", "done"}
            \/ pc = "raised" /\ raised.origin \in {"seed_surveys", "seed_responses"}
      [] OTHER ->
            \/ pc = "done"
            \/ pc = "raised" /\ raised.origin = "seed_responses"

\* Every request of the phase was answered, with a success or an error status.
AllAnswered(exchanges) ==
    \A k \in DOMAIN exchanges :
        exchanges[k].reply.exception \notin {"ConnectionError", "Timeout"}

\* The requests carry the items of the list, one request per item, in order.
OncePerItem(exchanges, items, Carried(_, _)) ==
    /\ Len(exchanges) = Len(items)
    /\ \A k \in DOMAIN exchanges : Carried(exchanges[k].request, items[k])

CarriesUser(request, user) ==
    request.data = [email |-> user.email, name |-> user.name, role |-> user.role]

CarriesSurvey(request, survey) ==
    request.data = _prepare_survey_payload(survey)

CarriesResponse(request, response) ==
    request.data = _prepare_response_payload(
                       response, DictGet(created_surveys, response.survey_id,
                                         response.survey_id))

\* C26 (as claimed): in a phase all of whose requests succeeded or failed with
\* an HTTP error status, every item of the list is submitted exactly once, the
\* i-th request of the phase carrying the i-th item.
C26_EveryItemOnceInOrder ==
    /\ (PhaseOver("seed_users") /\ AllAnswered(MemberExchanges))
          => OncePerItem(MemberExchanges, users, CarriesUser)
    /\ (PhaseOver("seed_surveys") /\ AllAnswered(SurveyExchanges))
          => OncePerItem(SurveyExchanges, surveys, CarriesSurvey)
    /\ (PhaseOver("seed_responses") /\ AllAnswered(ClientExchanges))
          => OncePerItem(ClientExchanges, responses, CarriesResponse)

\* C28 (as claimed): every value of created_surveys is the id the server
\* assigned or the survey's local id, never null, so that every response is
\* submitted to a server-assigned id or to its own local survey id.
C28_MappingNeverNull ==
    /\ \A local \in DOMAIN created_surveys :
          created_surveys[local] \in RemoteIds \cup {local}
    /\ Len(ClientExchanges) <= Len(responses)
    /\ \A k \in DOMAIN ClientExchanges :
          ClientExchanges[k].request.data.surveyId
              \in RemoteIds \cup {responses[k].survey_id}

RECURSIVE MappingAfter(_)
\* The mapping table as the first k survey POSTs and their answers determine
\* it: the id of the body after a success, the local id after an HTTP error.
MappingAfter(k) ==
    IF k = 0 THEN EmptyDict
    ELSE LET reply == SurveyExchanges[k].reply
         IN  IF reply.exception = ""
             THEN DictSet(MappingAfter(k - 1), surveys[k].id, reply.id)
             ELSE IF reply.exception = "HTTPError"
             THEN DictSet(MappingAfter(k - 1), surveys[k].id, surveys[k].id)
             ELSE MappingAfter(k - 1)

\* C29: what is submitted after seed_users does not depend on the users or on
\* what became of the member-creation calls: seed_users never ends seed_all,
\* every survey request is built from the survey list alone, the mapping table
\* from the surveys and the answers to their POSTs alone, and every response
\* request from the response, that table and the configuration alone, with no
\* user_email in its payload.
C29_UsersDoNotInfluenceLater ==
    /\ raised.origin # "seed_users"
    /\ Len(SurveyExchanges) <= Len(surveys)
    /\ \A k \in DOMAIN SurveyExchanges :
          SurveyExchanges[k].request =
              [api |-> "management", method |-> "POST",
               endpoint |-> <<"environments", environment_id, "surveys">>,
               api_key |-> api_key, data |-> _prepare_survey_payload(surveys[k])]
    /\ created_surveys = MappingAfter(Len(SurveyExchanges))
    /\ Len(ClientExchanges) <= Len(responses)
    /\ \A k \in DOMAIN ClientExchanges :
          LET target == DictGet(MappingAfter(Len(SurveyExchanges)),
                                responses[k].survey_id, responses[k].survey_id)
          IN  /\ ClientExchanges[k].request =
                    [api |-> "client", method |-> "POST",
                     endpoint |-> <<environment_id, "displays", target, "responses">>,
                     api_key |-> None,
                     data |-> _prepare_response_payload(responses[k], target)]
              /\ "user_email" \notin DOMAIN ClientExchanges[k].request.data

\* seed_users was left by an exception after its first request, and the
\* surveys and responses were submitted all the same.
C29_Witness ==
    /\ UsersRaised
    /\ Len(MemberExchanges) = 1
    /\ Len(SurveyExchanges) = 1
    /\ Len(ClientExchanges) = 1
    /\ pc = "done"

(***************************************************************************)
(* The generate and seed commands (main.py)                                *)
(***************************************************************************)

\* The exception types of the model that are ValueError or subclasses of it:
\* json's and requests' JSONDecodeError and pydantic's ValidationError are.
ValueErrors == {"ValueError", "JSONDecodeError", "ValidationError"}

\* seed lines 241-267: the first `except` clause that matches exception e
\* of seed_all.  ConnectionError in main.py is the builtin, which seed_all
\* raises itself; the one of requests is an OSError and falls to the last
\* clause.
seed_handler(e) ==
    CASE e.type \in ValueErrors -> "ValueError"
      [] e.type = "FileNotFoundError" -> "FileNotFoundError"
      [] e.type = "ConnectionError" /\ e.origin = "seed_all" -> "ConnectionError"
      [] OTHER -> "Exception"

\* generate lines 175-183: the `except` clause that matches exception type t
\* of generate_all.
generate_handler(t) ==
    IF t = "RuntimeError" THEN "RuntimeError" ELSE "Exception"

\* Variant of sys_exit: the catch-all clause prints the traceback and falls
\* off the end of the command.
sys_exit_CatchAllReturns(handler) ==
    IF handler \in {"", "Exception"} THEN 0 ELSE 1

\* The status the process exits with: sys.exit(1) at the end of every
\* `except` clause (generate lines 181 and 187, seed lines 249, 257, 265 and
\* 271), 0 from cli() when the command returns ("" for no clause).
sys_exit(handler) ==
    IF handler = "" THEN 0 ELSE 1

\* The process exited from the command with the handler and the status.
Exited(command, handler) ==
    <<[command |-> command, handler |-> handler, status |-> sys_exit(handler)]>>

\* seed lines 225-271: seed_all returned or raised, the command ends.
SeedExit ==
    /\ pc \in {"done", "raised"}
    /\ exit_status = <<>>
    /\ exit_status' = Exited("seed", IF pc = "raised" THEN seed_handler(raised) ELSE "")
    /\ UNCHANGED <<seeder_side, generator_side, num_users>>

\* generate lines 156-187: generate_all returned or raised, the command ends.
GenerateExit ==
    /\ gen_pc = "done" \/ gen_raised # ""
    /\ exit_status = <<>>
    /\ exit_status' = Exited("generate", IF gen_raised # ""
                                         THEN generate_handler(gen_raised) ELSE "")
    /\ UNCHANGED <<seeder_side, generator_side, num_users>>

\* main line 344: cli() dispatches to one of the two commands.
InitCommands == Init \/ InitGenerate

NextCommands ==
    \/ Next
    \/ NextGenerate
    \/ SeedExit
    \/ GenerateExit

SpecCommands == InitCommands /\ [][NextCommands]_vars

\* C23: a command whose seed_all or generate_all raised exits with a
\* non-zero status through one of the command's own `except` clauses, and a
\* command exits with status 0 only when seed_all or generate_all returned.
C23_NonZeroExitOnFatalError ==
    \A i \in 1..Len(exit_status) :
        LET e == exit_status[i]
            returned == IF e.command = "seed"
                        THEN pc = "done"
                        ELSE gen_pc = "done" /\ gen_raised = ""
        IN  /\ e.status = 0 <=> returned
            /\ ~returned => e.status > 0 /\ e.handler # ""
            /\ e.command = "seed" => pc \in {"done", "raised"}

\* A seed command ended by the catch-all clause on a connection error of
\* requests, and a generate command ended by it on an invalid payload.
C23_Witness ==
    /\ exit_status # <<>>
    /\ exit_status[1].handler = "Exception"
    /\ exit_status[1].status = 1
    /\ \/ pc = "raised" /\ raised.type = "ConnectionError" /\ raised.origin # "seed_all"
       \/ gen_raised = "TypeError"

\* generate_users returned its list to generate_all.
UsersReturned ==
    \E i \in DOMAIN chats :
        chats[i].step = "generate_users" /\ chats[i].reply = "valid"

\* C21: a generate_users(N) call that returns, returns exactly N users whose
\* emails are pairwise distinct, whatever the backend's payload was.
C21_ExactlyNDistinctUsers ==
    UsersReturned =>
        /\ Len(gen_users) = num_users
        /\ Distinct([a \in DOMAIN gen_users |-> gen_users[a].email])

\* generate_surveys returned its list to generate_all.
SurveysGenerated ==
    \E i \in DOMAIN chats :
        chats[i].step = "generate_surveys" /\ chats[i].reply = "valid"

ChoiceTypes == {"multipleChoiceSingle", "multipleChoiceMulti"}

\* C22: in every survey of a list generate_surveys returned, the question
\* ids are pairwise distinct and every multipleChoiceSingle or
\* multipleChoiceMulti question has a non-empty choices list.
C22_SurveysWellFormed ==
    SurveysGenerated =>
        \A i \in DOMAIN gen_surveys :
            LET qs == gen_surveys[i].questions
            IN  /\ Distinct([a \in DOMAIN qs |-> qs[a].id])
                /\ \A a \in DOMAIN qs :
                      qs[a].type \in ChoiceTypes =>
                          /\ "choices" \in DOMAIN qs[a]
                          /\ qs[a].choices # <<>>

\* The file is as the call of generate_all found it.
Untouched(f) == disk[f] \in {"absent", "previous"}

\* C27: each file is written as soon as its step has succeeded, whatever
\* becomes of the later steps; when generate_surveys fails after
\* generate_users succeeded, users.json is this run's while surveys.json and
\* responses.json are as the run found them; and the three files are all of
\* this run exactly when generate_all returned.
C27_SavedStepByStep ==
    /\ UsersReturned => Written("users.json")
    /\ SurveysGenerated => Written("surveys.json")
    /\ (gen_raised # "" /\ gen_pc = "generate_surveys") =>
          /\ Written("users.json")
          /\ Untouched("surveys.json")
          /\ Untouched("responses.json")
    /\ (\A f \in DOMAIN disk : Written(f)) <=> gen_pc = "done"

\* The chat of generate_surveys failed after users.json was overwritten with
\* one user: surveys.json and responses.json are still those of the earlier
\* run, whose responses were made for that run's users.
C27_Witness ==
    /\ gen_raised = "ResponseError"
    /\ gen_pc = "generate_surveys"
    /\ gen_users = <<GenUser("ada")>>
    /\ Written("users.json")
    /\ disk["surveys.json"] = "previous"
    /\ disk["responses.json"] = "previous"


====
